---- MODULE Spec2Model ----
(***************************************************************************)
(* Model of the hit queue and dispatcher of src/src/index.ts (class        *)
(* Visitor): pageview -> enqueue -> send -> getSendTaskQueue -> one POST   *)
(* per task -> Promise.all -> completion callback.                         *)
(*                                                                         *)
(* JavaScript objects are ordered maps: a sequence of <<key, value>> pairs *)
(* with pairwise distinct keys, in insertion order.  The JavaScript values *)
(* undefined and null are the reserved strings Undefined and Null.  An     *)
(* optional constructor option is <<>> when absent and <<v>> when given.   *)
(***************************************************************************)
EXTENDS Integers, Sequences, FiniteSets, TLC

VARIABLES config, options, tid, cid, uid, context, persistentParams, queue,
          sends, enqueued, uuids

vars == <<config, options, tid, cid, uid, context, persistentParams, queue,
          sends, enqueued, uuids>>

(***************************************************************************)
(* Bounds of the model.                                                    *)
(***************************************************************************)
MaxHits == 3
MaxSends == 2
MaxBatch == 2
MaxParamHits == 2

(***************************************************************************)
(* JavaScript values and objects.                                          *)
(***************************************************************************)
Undefined == "<undefined>"
Null == "<null>"

Falsy(v) == v \in {Undefined, Null, ""}

Or(a, b) == IF Falsy(a) THEN b ELSE a

Has(m, k) == \E i \in 1..Len(m) : m[i][1] = k

Get(m, k) ==
  IF Has(m, k) THEN m[CHOOSE i \in 1..Len(m) : m[i][1] = k][2] ELSE Undefined

Put(m, k, v) ==
  IF Has(m, k)
  THEN [i \in 1..Len(m) |-> IF m[i][1] = k THEN <<k, v>> ELSE m[i]]
  ELSE Append(m, <<k, v>>)

RECURSIVE Assign(_, _)
Assign(target, source) ==
  IF source = <<>> THEN target
  ELSE Assign(Put(target, Head(source)[1], Head(source)[2]), Tail(source))

RECURSIVE Join(_, _)
Join(strs, sep) ==
  IF strs = <<>> THEN ""
  ELSE IF Len(strs) = 1 THEN strs[1]
  ELSE strs[1] \o sep \o Join(Tail(strs), sep)

Min(a, b) == IF a < b THEN a ELSE b

\* Math.floor where the code has Math.ceil.
CeilAsFloor(n, d) == n \div d

Ceil(n, d) == (n + d - 1) \div d

(***************************************************************************)
(* Collaborators: uuid.v4, querystring.stringify, the static tables of     *)
(* ./config.                                                               *)
(***************************************************************************)
uuidV4(n) == "uuid-" \o ToString(n)

protocolVersion == "1"
configPath == "/collect"
batchPath == "/batch"

parametersMap ==
  <<  <<"documentPath", "dp">>, <<"documentHostName", "dh">>,
      <<"documentTitle", "dt">>, <<"clientId", "cid">> >>

QsEscape(s) ==
  CASE s = "/a" -> "%2Fa"
    [] s = "/b" -> "%2Fb"
    [] s = "/p" -> "%2Fp"
    [] s = "a b" -> "a%20b"
    [] OTHER -> s

QsPrimitive(v) == IF v \in {Undefined, Null} THEN "" ELSE v

QsStringify(obj) ==
  Join([i \in 1..Len(obj) |->
          QsEscape(obj[i][1]) \o "=" \o QsEscape(QsPrimitive(obj[i][2]))], "&")

(***************************************************************************)
(* Visitor: constructor.                                                   *)
(***************************************************************************)
ApplyOptions(cfg, o) ==
  [batching  |-> IF o.enableBatching # <<>> THEN o.enableBatching[1]
                 ELSE cfg.batching,
   batchSize |-> IF o.batchSize # <<>> THEN o.batchSize[1] ELSE cfg.batchSize]

NewCid(o, n) == IF o.cid = <<>> \/ Falsy(o.cid[1]) THEN uuidV4(n) ELSE o.cid[1]

UsesUuid(o) == o.cid = <<>> \/ Falsy(o.cid[1])

OptValue(opt) == IF opt = <<>> THEN Undefined ELSE opt[1]

(***************************************************************************)
(* Visitor: parameter helpers.                                             *)
(***************************************************************************)
RECURSIVE translateParams(_)
translateParams(params) ==
  IF params = <<>> THEN <<>>
  ELSE LET n    == Len(params)
           rest == translateParams(SubSeq(params, 1, n - 1))
           key  == params[n][1]
       IN  IF Has(parametersMap, key)
           THEN Put(rest, Get(parametersMap, key), params[n][2])
           ELSE Put(rest, key, params[n][2])

tidyParameters(params) ==
  SelectSeq(params, LAMBDA e : e[2] # Null /\ e[2] # Undefined)

(***************************************************************************)
(* Visitor: batch planning.                                                *)
(***************************************************************************)
\* this.queue.slice where the code has this.queue.splice.
getNextSendBatchSlice(q, cfg) ==
  LET maxBatchSize == Min(Len(q), cfg.batchSize)
  IN  [batch |-> SubSeq(q, 1, maxBatchSize), queue |-> q]

getNextSendBatch(q, cfg) ==
  LET maxBatchSize == Min(Len(q), cfg.batchSize)
  IN  [batch |-> SubSeq(q, 1, maxBatchSize),
       queue |-> SubSeq(q, maxBatchSize + 1, Len(q))]

RECURSIVE Buckets(_, _, _)
Buckets(q, cfg, n) ==
  IF n = 0 THEN [q |-> <<>>, queue |-> q]
  ELSE LET b == getNextSendBatch(q, cfg)
           r == Buckets(b.queue, cfg, n - 1)
       IN  [q |-> <<b.batch>> \o r.q, queue |-> r.queue]

\* A task is one element of the array getSendTaskQueue returns: a Hit object
\* (isArray = FALSE, items = <<hit>>) or an array of Hits (isArray = TRUE).
getSendTaskQueue(q, cfg) ==
  IF ~cfg.batching
  THEN [tasks |-> [i \in 1..Len(q) |-> [isArray |-> FALSE, items |-> <<q[i]>>]],
        queue |-> <<>>]
  ELSE LET nBuckets == Ceil(Len(q), cfg.batchSize)
           r        == Buckets(q, cfg, nBuckets)
           kept     == SelectSeq(r.q, LAMBDA bucket : Len(bucket) > 0)
       IN  [tasks |-> [i \in 1..Len(kept) |->
                         [isArray |-> TRUE, items |-> kept[i]]],
            queue |-> r.queue]

(***************************************************************************)
(* Visitor: send.  A send record holds the closure of one invocation: its  *)
(* taskQueue, count, callback fn, the task promises, the promise of        *)
(* Promise.all, and what the collaborators observed (the POSTs issued and  *)
(* the calls of fn).                                                       *)
(***************************************************************************)
MapTypeError == "params.map is not a function"
CallbackError == "callback failed"

getBody(task) ==
  IF task.isArray
  THEN [threw |-> FALSE,
        body  |-> Join([i \in 1..Len(task.items) |->
                          QsStringify(task.items[i])], "\n")]
  ELSE [threw |-> TRUE, body |-> MapTypeError]

\* A send that always posts to the single-hit path.
PathFragmentNeverBatch(cfg) == configPath

PathFragment(cfg) == IF cfg.batching THEN batchPath ELSE configPath

\* An aggregate that keeps the latest rejection instead of the first.
PromiseAllLastRejection(all, task, i, reason) ==
  IF all.state = "fulfilled" THEN all
  ELSE IF task[i] = "rejected" THEN [state |-> "rejected", reason |-> reason]
  ELSE IF all.state = "pending" /\ \A j \in 1..Len(task) : task[j] = "resolved"
       THEN [state |-> "fulfilled", reason |-> Undefined]
  ELSE all

\* The promise Promise.all(tasks) settles with the first rejection it sees,
\* or fulfils once every task promise is resolved.
PromiseAll(all, task, i, reason) ==
  IF all.state # "pending" THEN all
  ELSE IF task[i] = "rejected" THEN [state |-> "rejected", reason |-> reason]
  ELSE IF \A j \in 1..Len(task) : task[j] = "resolved"
       THEN [state |-> "fulfilled", reason |-> Undefined]
  ELSE all

\* fn.call(this, error, count), recorded in calls; fn is "spy", a callback
\* that returns (as the default fn of send does), or "throws", one that throws.
Call(calls, error, count) == Append(calls, [error |-> error, count |-> count])

\* send on an empty taskQueue: fn.call(this, null, 0) inside the try block,
\* then return; a throw of fn lands in the catch clause, which calls fn again.
EmptySend(q, cfg, fn) ==
  [snapshot |-> q, batching |-> cfg.batching, batchSize |-> cfg.batchSize,
   taskQueue |-> <<>>, path |-> Undefined, post |-> <<>>, task |-> <<>>,
   executor |-> <<>>, completions |-> <<>>, count |-> 0,
   all |-> [state |-> "none", reason |-> Undefined],
   fn |-> fn,
   calls |-> IF fn = "throws"
             THEN Call(Call(<<>>, Null, 0), CallbackError, 0)
             ELSE Call(<<>>, Null, 0),
   pc |-> "done",
   promise |-> IF fn = "throws" THEN "rejected" ELSE "resolved"]

\* The Error a failed POST of unit u reports.
Errors(u) == {"error-" \o ToString(u)}

\* What the collaborators do when called for unit i of a send.  collab.codec
\* is the set of units for which querystring.stringify throws; collab.post[i]
\* says what request.post does for unit i: "later" (it returns, and calls
\* back after send has issued every POST), "throws" (it throws without
\* calling back), "ok" or "err" (it calls back before it returns, without or
\* with an error).  Units beyond collab.post get "later".
PostThrew == "request.post threw"
CodecThrew == "querystring.stringify threw"

NoThrow == [post |-> <<>>, codec |-> {}]

PostDoes(collab, i) ==
  IF i \in DOMAIN collab.post THEN collab.post[i] ELSE "later"

\* The outcome of one promise executor: the body is built first (getBody,
\* then the codec), then request.post is called.  A throw of the executor
\* rejects the task promise; a callback run before request.post returns
\* settles it on the spot.
Executor(task, i, collab) ==
  LET b == getBody(task)
  IN  IF b.threw
      THEN [did |-> "getBody threw", settled |-> "rejected", reason |-> b.body]
      ELSE IF i \in collab.codec
      THEN [did |-> "codec threw", settled |-> "rejected",
            reason |-> CodecThrew]
      ELSE IF PostDoes(collab, i) = "throws"
      THEN [did |-> "post threw", settled |-> "rejected",
            reason |-> PostThrew]
      ELSE IF PostDoes(collab, i) = "err"
      THEN [did |-> "called back", settled |-> "rejected",
            reason |-> CHOOSE e \in Errors(i) : TRUE]
      ELSE IF PostDoes(collab, i) = "ok"
      THEN [did |-> "called back", settled |-> "resolved",
            reason |-> Undefined]
      ELSE [did |-> "posted", settled |-> "pending", reason |-> Undefined]

\* taskQueue.map(task => new Promise(...)) and Promise.all(tasks): the
\* executors run in the order of the units; each callback run meanwhile
\* counts; Promise.all, which looks at the task promises in their order,
\* rejects with the rejection of the lowest unit rejected by then.
DispatchWith(q, cfg, fn, taskQueue, collab) ==
  LET n          == Len(taskQueue)
      ex         == [i \in 1..n |-> Executor(taskQueue[i], i, collab)]
      calledBack == SelectSeq([i \in 1..n |-> i],
                              LAMBDA i : ex[i].did = "called back")
      rejected   == {i \in 1..n : ex[i].settled = "rejected"}
      first      == CHOOSE i \in rejected : \A j \in rejected : i <= j
  IN  [snapshot |-> q, batching |-> cfg.batching, batchSize |-> cfg.batchSize,
       taskQueue |-> taskQueue, path |-> PathFragment(cfg),
       post |-> [i \in 1..n |->
                   [issued |-> ex[i].did \in {"posted", "called back"},
                    body   |-> IF ex[i].did \in {"posted", "called back"}
                               THEN getBody(taskQueue[i]).body
                               ELSE Undefined,
                    done   |-> ex[i].did = "called back"]],
       task |-> [i \in 1..n |-> ex[i].settled],
       executor |-> [i \in 1..n |-> ex[i].did],
       completions |-> [k \in 1..Len(calledBack) |->
                          [unit |-> calledBack[k],
                           err  |-> ex[calledBack[k]].reason]],
       count |-> Len(calledBack),
       all |-> IF rejected # {}
               THEN [state |-> "rejected", reason |-> ex[first].reason]
               ELSE IF \A i \in 1..n : ex[i].settled = "resolved"
               THEN [state |-> "fulfilled", reason |-> Undefined]
               ELSE [state |-> "pending", reason |-> Undefined],
       fn |-> fn, calls |-> <<>>, pc |-> "await", promise |-> "pending"]

Dispatch(q, cfg, fn, taskQueue) == DispatchWith(q, cfg, fn, taskQueue, NoThrow)

\* send without the early return on an empty taskQueue.
StartSendNoEarlyReturn(q, cfg, fn) ==
  LET planned == getSendTaskQueue(q, cfg)
  IN  [queue |-> planned.queue, rec |-> Dispatch(q, cfg, fn, planned.tasks)]

\* send with collaborators that may throw.
StartSendWith(q, cfg, fn, collab) ==
  LET planned == getSendTaskQueue(q, cfg)
  IN  [queue |-> planned.queue,
       rec   |-> IF Len(planned.tasks) = 0 THEN EmptySend(q, cfg, fn)
                 ELSE DispatchWith(q, cfg, fn, planned.tasks, collab)]

\* The synchronous part of send, up to `await Promise.all(tasks)`.
StartSend(q, cfg, fn) ==
  LET planned == getSendTaskQueue(q, cfg)
  IN  [queue |-> planned.queue,
       rec   |-> IF Len(planned.tasks) = 0 THEN EmptySend(q, cfg, fn)
                 ELSE Dispatch(q, cfg, fn, planned.tasks)]

\* A request.post callback that counts the Hits of the unit, not the unit.
PostCallbackCountsHits(rec, u, err) ==
  LET task == [rec.task EXCEPT ![u] =
                 IF @ # "pending" THEN @
                 ELSE IF err # Undefined THEN "rejected" ELSE "resolved"]
  IN  [rec EXCEPT !.post[u].done = TRUE,
                  !.task = task,
                  !.count = @ + Len(rec.taskQueue[u].items),
                  !.completions = Append(@, [unit |-> u, err |-> err]),
                  !.all = PromiseAll(@, task, u, err)]

\* The callback of request.post: if (err) reject(err); count++; resolve().
PostCallback(rec, u, err) ==
  LET task == [rec.task EXCEPT ![u] =
                 IF @ # "pending" THEN @
                 ELSE IF err # Undefined THEN "rejected" ELSE "resolved"]
  IN  [rec EXCEPT !.post[u].done = TRUE,
                  !.task = task,
                  !.count = @ + 1,
                  !.completions = Append(@, [unit |-> u, err |-> err]),
                  !.all = PromiseAll(@, task, u, err)]

\* A catch clause that rethrows after it has called fn.
AfterAwaitRethrows(rec) ==
  IF rec.all.state = "fulfilled"
  THEN IF rec.fn = "throws"
       THEN [rec EXCEPT !.calls = Call(Call(@, Null, rec.count),
                                        CallbackError, rec.count),
                        !.pc = "done", !.promise = "rejected"]
       ELSE [rec EXCEPT !.calls = Call(@, Null, rec.count),
                        !.pc = "done", !.promise = "resolved"]
  ELSE [rec EXCEPT !.calls = Call(@, rec.all.reason, rec.count),
                   !.pc = "done", !.promise = "rejected"]

\* The continuation of send after `await Promise.all(tasks)`.
AfterAwait(rec) ==
  IF rec.all.state = "fulfilled"
  THEN IF rec.fn = "throws"
       THEN [rec EXCEPT !.calls = Call(Call(@, Null, rec.count),
                                        CallbackError, rec.count),
                        !.pc = "done", !.promise = "rejected"]
       ELSE [rec EXCEPT !.calls = Call(@, Null, rec.count),
                        !.pc = "done", !.promise = "resolved"]
  ELSE [rec EXCEPT !.calls = Call(@, rec.all.reason, rec.count),
                   !.pc = "done",
                   !.promise = IF rec.fn = "throws" THEN "rejected"
                               ELSE "resolved"]

(***************************************************************************)
(* Inputs.                                                                 *)
(***************************************************************************)
Opt(S) == {<<>>} \cup {<<v>> : v \in S}

\* The batching options of the root Visitor: left out, or both given.
OptionSets ==
  [tid : {<<"UA-1">>}, cid : Opt({"c1"}), uid : {<<>>},
   enableBatching : {<<>>}, batchSize : {<<>>}]
  \cup
  [tid : {<<"UA-1">>}, cid : Opt({"c1"}), uid : {<<>>},
   enableBatching : {<<b>> : b \in BOOLEAN},
   batchSize : {<<n>> : n \in 1..MaxBatch}]

ConfigSets == [batching : BOOLEAN, batchSize : 1..MaxBatch]

Callbacks == {"spy", "throws"}

PageviewInputs ==
  [path : {"/a", "/b"}, hostname : {Undefined}, title : {Undefined},
   params : {<<>>}, callback : {Undefined, "spy"}]

(***************************************************************************)
(* The state machine.                                                      *)
(***************************************************************************)
\* new Visitor(options, context) in a process whose config is any policy.
InitWith(optionSets, contextSets) ==
  /\ options \in optionSets
  /\ \E cfg0 \in ConfigSets : config = ApplyOptions(cfg0, options)
  /\ tid = OptValue(options.tid)
  /\ cid = NewCid(options, 0)
  /\ uid = OptValue(options.uid)
  /\ uuids = IF UsesUuid(options) THEN 1 ELSE 0
  /\ context \in contextSets
  /\ persistentParams = <<>>
  /\ queue = <<>>
  /\ sends = <<>>
  /\ enqueued = <<>>

Init ==
  /\ options \in OptionSets
  /\ \E cfg0 \in ConfigSets : config = ApplyOptions(cfg0, options)
  /\ tid = OptValue(options.tid)
  /\ cid = NewCid(options, 0)
  /\ uid = OptValue(options.uid)
  /\ uuids = IF UsesUuid(options) THEN 1 ELSE 0
  /\ context = <<>>
  /\ persistentParams = <<>>
  /\ queue = <<>>
  /\ sends = <<>>
  /\ enqueued = <<>>

\* The Hit pageview builds and the derived Visitor enqueues.
PageviewHit(o, derivedCid) ==
  LET merged == Assign(Assign(<<>>, persistentParams), o.params)
      withDp == Put(merged, "dp", Or(o.path, Get(context, "dp")))
      withDh == Put(withDp, "dh", Or(o.hostname, Get(context, "dh")))
      withDt == Put(withDh, "dt", Or(o.title, Get(context, "dt")))
      tidy   == tidyParameters(withDt)
      params == translateParams(tidy)
      defaults == << <<"v", protocolVersion>>, <<"tid", tid>>,
                     <<"cid", derivedCid>>, <<"uid", uid>>,
                     <<"t", "pageview">> >>
  IN  Assign(params, defaults)

\* this.queue.unshift where the code has this.queue.push.
enqueueAtHead(q, hit) == <<hit>> \o q

\* this.queue.push(params) of enqueue.
enqueue(q, hit) == Append(q, hit)

\* An enqueue that sends whether or not a callback was given.
enqueueSendsAlways(fn) == TRUE

\* if (fn) of enqueue: send is triggered only when a callback was given.
enqueueSends(fn) == fn # Undefined

\* pageview with its argument drawn from inputs, for at most maxHits Hits.
PageviewWith(inputs, maxHits) ==
  \E o \in inputs :
    /\ Len(enqueued) < maxHits
    /\ o.callback # Undefined => Len(sends) < MaxSends
    /\ LET cfg == ApplyOptions(config, options)
           hit == PageviewHit(o, NewCid(options, uuids))
           q   == enqueue(queue, hit)
           s   == StartSend(q, cfg, o.callback)
       IN  /\ config' = cfg
           /\ uuids' = IF UsesUuid(options) THEN uuids + 1 ELSE uuids
           /\ enqueued' = Append(enqueued, hit)
           /\ IF enqueueSends(o.callback)
              THEN queue' = s.queue /\ sends' = Append(sends, s.rec)
              ELSE queue' = q /\ sends' = sends
    /\ UNCHANGED <<options, tid, cid, uid, context, persistentParams>>

Pageview == PageviewWith(PageviewInputs, MaxHits)

Send ==
  \E fn \in Callbacks :
    /\ Len(sends) < MaxSends
    /\ LET s == StartSend(queue, config, fn)
       IN  queue' = s.queue /\ sends' = Append(sends, s.rec)
    /\ UNCHANGED <<config, options, tid, cid, uid, context, persistentParams,
                   enqueued, uuids>>

PostDone ==
  \E s \in 1..Len(sends) : \E u \in 1..Len(sends[s].post) :
    \E err \in {Undefined} \cup Errors(u) :
      /\ sends[s].post[u].issued /\ ~sends[s].post[u].done
      /\ sends' = [sends EXCEPT ![s] = PostCallback(@, u, err)]
      /\ UNCHANGED <<config, options, tid, cid, uid, context,
                     persistentParams, queue, enqueued, uuids>>

Resume ==
  \E s \in 1..Len(sends) :
    /\ sends[s].pc = "await" /\ sends[s].all.state # "pending"
    /\ sends' = [sends EXCEPT ![s] = AfterAwait(@)]
    /\ UNCHANGED <<config, options, tid, cid, uid, context,
                   persistentParams, queue, enqueued, uuids>>

Next == Pageview \/ Send \/ PostDone \/ Resume

Spec == Init /\ [][Next]_vars

(***************************************************************************)
(* The same Visitor with collaborators that may throw, or call back,      *)
(* while send issues the POSTs.                                            *)
(***************************************************************************)
CollabSets ==
  {NoThrow,
   [post |-> <<"throws">>, codec |-> {}],
   [post |-> <<"later", "throws">>, codec |-> {}],
   [post |-> <<"err", "throws">>, codec |-> {}],
   [post |-> <<"ok", "throws">>, codec |-> {}],
   [post |-> <<"throws", "err">>, codec |-> {}],
   [post |-> <<>>, codec |-> {1}],
   [post |-> <<>>, codec |-> {2}]}

PlainPageviewInputs ==
  [path : {"/a"}, hostname : {Undefined}, title : {Undefined},
   params : {<<>>}, callback : {Undefined}]

PageviewPlain == PageviewWith(PlainPageviewInputs, MaxHits)

SendThrowing ==
  \E fn \in Callbacks : \E collab \in CollabSets :
    /\ Len(sends) < MaxSends
    /\ LET s == StartSendWith(queue, config, fn, collab)
       IN  queue' = s.queue /\ sends' = Append(sends, s.rec)
    /\ UNCHANGED <<config, options, tid, cid, uid, context, persistentParams,
                   enqueued, uuids>>

NextThrow == PageviewPlain \/ SendThrowing \/ PostDone \/ Resume

SpecThrow == Init /\ [][NextThrow]_vars

(***************************************************************************)
(* The same Visitor with a pageview callback told apart from the callback  *)
(* of send, which is here the default one of send().                       *)
(***************************************************************************)
CallbackPageviewInputs ==
  [path : {"/a", "/b"}, hostname : {Undefined}, title : {Undefined},
   params : {<<>>}, callback : {Undefined, "callback"}]

PageviewCallback == PageviewWith(CallbackPageviewInputs, MaxHits)

SendDefault ==
  /\ Len(sends) < MaxSends
  /\ LET s == StartSend(queue, config, "spy")
     IN  queue' = s.queue /\ sends' = Append(sends, s.rec)
  /\ UNCHANGED <<config, options, tid, cid, uid, context, persistentParams,
                 enqueued, uuids>>

NextCallback == PageviewCallback \/ SendDefault \/ PostDone \/ Resume

SpecCallback == Init /\ [][NextCallback]_vars

(***************************************************************************)
(* A Visitor constructed with a context (the exported class, or the view a *)
(* hit method returns), recording pageviews with every kind of argument,   *)
(* with set and reset.                                                     *)
(***************************************************************************)
ParamOptionSets ==
  [tid : {<<"UA-1">>}, cid : {<<"c1">>}, uid : Opt({"u1"}),
   enableBatching : {<<TRUE>>}, batchSize : {<<MaxBatch>>}]

ContextSets == { << <<"dp", "/p">>, <<"dt", "Ctx">> >> }

ParamSets ==
  { <<>>,
    << <<"dh", "p.io">> >>,
    << <<"documentTitle", "T">>, <<"x", Null>>, <<"y", Undefined>> >>,
    << <<"cd1", "v">>, <<"dp", "/b">> >> }

ParamPageviewInputs ==
  [path : {"/a", ""}, hostname : {Undefined, "h.io"}, title : {Undefined},
   params : ParamSets, callback : {Undefined}]

SetInputs == { <<"cd1", "s">>, <<"dt", "S">> }

InitParams == InitWith(ParamOptionSets, ContextSets)

PageviewParams == PageviewWith(ParamPageviewInputs, MaxParamHits)

\* The fields of the Visitor object.
Self ==
  [options |-> options, tid |-> tid, cid |-> cid, uid |-> uid,
   context |-> context, persistentParams |-> persistentParams,
   queue |-> queue]

\* A reset that clears everything the Visitor has collected.
resetAll(v) ==
  [v EXCEPT !.context = <<>>, !.persistentParams = <<>>, !.queue = <<>>]

\* reset(): this.context = {}.
reset(v) == [v EXCEPT !.context = <<>>]

\* set(key, value): this.persistentParams[key] = value.
set(v, key, value) ==
  [v EXCEPT !.persistentParams = Put(@, key, value)]

Becomes(v) ==
  /\ options' = v.options /\ tid' = v.tid /\ cid' = v.cid /\ uid' = v.uid
  /\ context' = v.context /\ persistentParams' = v.persistentParams
  /\ queue' = v.queue

Reset ==
  /\ Becomes(reset(Self))
  /\ UNCHANGED <<config, sends, enqueued, uuids>>

Set ==
  \E kv \in SetInputs :
    /\ Becomes(set(Self, kv[1], kv[2]))
    /\ UNCHANGED <<config, sends, enqueued, uuids>>

NextParams == PageviewParams \/ Set \/ Reset

SpecParams == InitParams /\ [][NextParams]_vars

(***************************************************************************)
(* The same Visitor in a process where other Visitors are constructed: the *)
(* constructor of every Visitor writes the one config object of ./config.  *)
(***************************************************************************)
OtherOptionSets ==
  [tid : {<<"UA-2">>}, cid : {<<"c2">>}, uid : {<<>>},
   enableBatching : Opt(BOOLEAN), batchSize : Opt(1..MaxBatch)]

\* init(options) for another Visitor.
InitOther ==
  \E o \in OtherOptionSets :
    /\ config' = ApplyOptions(config, o)
    /\ UNCHANGED <<options, tid, cid, uid, context, persistentParams, queue,
                   sends, enqueued, uuids>>

NextShared == PageviewPlain \/ Send \/ PostDone \/ Resume \/ InitOther

SpecShared == Init /\ [][NextShared]_vars

(***************************************************************************)
(* The legacy variant src/lib/index.js.  Its Visitor is held in the same   *)
(* variables: queue is this._queue, context this._context, tid and cid the *)
(* identity, sends the closures of the send invocations; it has no uid, no *)
(* persistent params and does not write config.  A legacy send record      *)
(* holds the callback fn, the log counter count, the request.post calls    *)
(* made so far (posted: url, and the position idx of the Hit in enqueued), *)
(* the number of them whose callback has run (completed), the number of    *)
(* Hits enqueued before the send was invoked (started), and the calls of   *)
(* fn.                                                                     *)
(***************************************************************************)
configHostname == "http://www.google-analytics.com"

LegacyUrl(params) == configHostname \o configPath \o "?" \o QsStringify(params)

\* An iteration that posts every queued Hit without waiting for the POSTs.
LegacyWhilstAll(rec, q, shifted) ==
  IF Len(q) > 0
  THEN [queue |-> <<>>,
        rec   |-> [rec EXCEPT
                     !.count = @ + Len(q),
                     !.posted = @ \o [i \in 1..Len(q) |->
                                        [url |-> LegacyUrl(q[i]),
                                         idx |-> shifted + i]]]]
  ELSE [queue |-> q,
        rec   |-> [rec EXCEPT !.calls = Append(@, [error |-> Undefined]),
                              !.pc = "done"]]

\* async.whilst(test, iterator, callback), one round: test() reads the queue
\* length; the iterator shifts the head Hit and posts it; with nothing left
\* the final callback calls fn without an error.  shifted is the number of
\* Hits shifted so far by any send.
LegacyWhilst(rec, q, shifted) ==
  IF Len(q) > 0
  THEN [queue |-> Tail(q),
        rec   |-> [rec EXCEPT
                     !.count = @ + 1,
                     !.posted = Append(@, [url |-> LegacyUrl(Head(q)),
                                           idx |-> shifted + 1])]]
  ELSE [queue |-> q,
        rec   |-> [rec EXCEPT !.calls = Append(@, [error |-> Undefined]),
                              !.pc = "done"]]

\* Visitor.prototype.send.
LegacyStartSend(q, fn, shifted, nEnqueued) ==
  LegacyWhilst([fn |-> fn, count |-> 1, posted |-> <<>>, completed |-> 0,
                started |-> nEnqueued, calls |-> <<>>, pc |-> "running"],
               q, shifted)

\* The callback async.whilst hands to the iterator, run by request.post.
LegacyNext(rec, q, shifted, err) ==
  IF err # Undefined
  THEN [queue |-> q,
        rec   |-> [rec EXCEPT !.completed = @ + 1,
                              !.calls = Append(@, [error |-> err]),
                              !.pc = "done"]]
  ELSE LegacyWhilst([rec EXCEPT !.completed = @ + 1], q, shifted)

\* pageview(path, params, fn) and _enqueue("pageview", params, fn).
LegacyPageviewHit(path, params) ==
  LET merged == Assign(Assign(<<>>, context), params)
      withDp == Put(merged, "dp", Or(path, Get(merged, "dp")))
  IN  Assign(withDp, << <<"v", protocolVersion>>, <<"tid", tid>>,
                        <<"cid", cid>>, <<"t", "pageview">> >>)

\* _tidyParameters(params).
LegacyTidyParameters(params) ==
  SelectSeq(params, LAMBDA e : e[2] # Null /\ e[2] # Undefined)

\* event(category, action, label, value, params, fn) and
\* _enqueue("event", params, fn).
LegacyEventHit(category, action, label, value, params) ==
  LET p1 == Put(params, "ec",
                Or(Or(category, Get(params, "ec")), Get(context, "ec")))
      p2 == Put(p1, "ea", Or(Or(action, Get(p1, "ea")), Get(context, "ea")))
      p3 == Put(p2, "el", Or(Or(label, Get(p2, "el")), Get(context, "el")))
      p4 == Put(p3, "ev", Or(Or(value, Get(p3, "ev")), Get(context, "ev")))
      p5 == Put(p4, "p", Or(Get(p4, "p"), Get(context, "dp")))
  IN  Assign(LegacyTidyParameters(p5),
             << <<"v", protocolVersion>>, <<"tid", tid>>,
                <<"cid", cid>>, <<"t", "event">> >>)

LegacyOptionSets ==
  [tid : {<<"UA-1">>}, cid : Opt({"c1"}), uid : {<<>>},
   enableBatching : {<<>>}, batchSize : {<<>>}]

LegacyInit ==
  /\ options \in LegacyOptionSets
  /\ config \in ConfigSets
  /\ tid = OptValue(options.tid)
  /\ cid = NewCid(options, 0)
  /\ uid = Undefined
  /\ uuids = IF UsesUuid(options) THEN 1 ELSE 0
  /\ context = <<>>
  /\ persistentParams = <<>>
  /\ queue = <<>>
  /\ sends = <<>>
  /\ enqueued = <<>>

Shifted == Len(enqueued) - Len(queue)

\* _enqueue after the Hit is built: push it, and send when fn is given.
LegacyEnqueue(hit, fn) ==
  /\ Len(enqueued) < MaxHits
  /\ fn # Undefined => Len(sends) < MaxSends
  /\ LET q == enqueue(queue, hit)
         s == LegacyStartSend(q, fn, Shifted, Len(enqueued) + 1)
     IN  /\ enqueued' = Append(enqueued, hit)
         /\ IF enqueueSends(fn)
            THEN queue' = s.queue /\ sends' = Append(sends, s.rec)
            ELSE queue' = q /\ sends' = sends
  /\ UNCHANGED <<config, options, tid, cid, uid, context, persistentParams,
                 uuids>>

LegacyPageview ==
  \E path \in {"/a"} : \E fn \in {Undefined, "spy"} :
    LegacyEnqueue(LegacyPageviewHit(path, <<>>), fn)

LegacyEvent ==
  \E category \in {"cat"} : \E action \in {"act"} :
    \E fn \in {Undefined, "spy"} :
      LegacyEnqueue(LegacyEventHit(category, action, Null, Null, <<>>), fn)

LegacySend ==
  /\ Len(sends) < MaxSends
  /\ LET s == LegacyStartSend(queue, "spy", Shifted, Len(enqueued))
     IN  queue' = s.queue /\ sends' = Append(sends, s.rec)
  /\ UNCHANGED <<config, options, tid, cid, uid, context, persistentParams,
                 enqueued, uuids>>

LegacyPostDone ==
  \E s \in 1..Len(sends) : \E err \in {Undefined, "error"} :
    /\ sends[s].completed < Len(sends[s].posted)
    /\ LET r == LegacyNext(sends[s], queue, Shifted, err)
       IN  queue' = r.queue /\ sends' = [sends EXCEPT ![s] = r.rec]
    /\ UNCHANGED <<config, options, tid, cid, uid, context, persistentParams,
                   enqueued, uuids>>

LegacyNextStep ==
  LegacyPageview \/ LegacyEvent \/ LegacySend \/ LegacyPostDone

SpecLegacy == LegacyInit /\ [][LegacyNextStep]_vars

(***************************************************************************)
(* Properties.                                                             *)
(***************************************************************************)
SendIds == 1..Len(sends)

\* What the HTTP client saw of one send: the bodies of its POSTs, in order.
PostedBodies(r) ==
  LET issued == SelectSeq(r.post, LAMBDA p : p.issued)
  IN  [i \in 1..Len(issued) |-> issued[i].body]

EncodedHits(hits) == [i \in 1..Len(hits) |-> QsStringify(hits[i])]

\* The i-th slice of size B of the Queue a send found.
Slice(r, i) ==
  SubSeq(r.snapshot, (i - 1) * r.batchSize + 1,
         Min(i * r.batchSize, Len(r.snapshot)))

CeilDiv(n, b) == IF n % b = 0 THEN n \div b ELSE (n \div b) + 1

RECURSIVE Flatten(_)
Flatten(units) ==
  IF units = <<>> THEN <<>> ELSE Head(units).items \o Flatten(Tail(units))

Failures(r) == SelectSeq(r.completions, LAMBDA c : c.err # Undefined)

AllPostsDone(r) == \A u \in 1..Len(r.post) : r.post[u].issued => r.post[u].done

InFlight(r) == \E u \in 1..Len(r.post) : r.post[u].issued /\ ~r.post[u].done

\* C1: the Hits carried by the POSTs of a send are exactly the Queue
\* contents at the instant the send was invoked (no Hit more, no Hit less).
C1_PostsCarrySnapshot ==
  \A s \in SendIds :
    Join(PostedBodies(sends[s]), "\n")
      = Join(EncodedHits(sends[s].snapshot), "\n")

\* C2: with batching enabled, a Queue of N Hits and batchSize B are planned
\* into ceil(N/B) non-empty units, all of length B except possibly the last
\* (N mod B, or B), whose concatenation is the Queue; the Queue ends empty.
C2_BatchPlan ==
  [][ Len(sends') = Len(sends) + 1 =>
        LET r == sends'[Len(sends')]
            N == Len(r.snapshot)
            B == r.batchSize
            K == Len(r.taskQueue)
        IN  r.batching =>
              /\ K = CeilDiv(N, B)
              /\ \A i \in 1..K :
                   /\ r.taskQueue[i].isArray
                   /\ Len(r.taskQueue[i].items) >= 1
                   /\ i < K => Len(r.taskQueue[i].items) = B
                   /\ i = K => Len(r.taskQueue[i].items)
                                 = (IF N % B = 0 THEN B ELSE N % B)
              /\ Flatten(r.taskQueue) = r.snapshot
              /\ queue' = <<>> ]_vars

C2_Witness ==
  \E s \in SendIds :
    /\ sends[s].batching /\ sends[s].batchSize = 2
    /\ Len(sends[s].snapshot) = 3
    /\ Len(sends[s].taskQueue) = 2
    /\ Len(sends[s].taskQueue[2].items) = 1

\* C3: with batching disabled, a send on N >= 1 Hits issues N POSTs, one
\* per Hit in Queue order, to the single-hit path, each body the query
\* string of its Hit; when all succeed the callback gets (null, N).
C3_OnePostPerHit ==
  \A s \in SendIds :
    LET r == sends[s]
        N == Len(r.snapshot)
    IN  (~r.batching /\ N >= 1) =>
          /\ Len(r.post) = N
          /\ r.path = configPath
          /\ \A i \in 1..N :
               r.post[i].issued /\ r.post[i].body = QsStringify(r.snapshot[i])
          /\ (r.pc = "done" /\ Failures(r) = <<>>) =>
               r.calls[1] = [error |-> Null, count |-> N]

\* C4: with batching enabled, a send on N >= 1 Hits issues ceil(N/B) POSTs,
\* the i-th carrying the i-th slice of B Hits, and when every POST succeeded
\* the callback is invoked with (null, ceil(N/B)).
C4_BatchedSendCount ==
  \A s \in SendIds :
    LET r == sends[s]
        N == Len(r.snapshot)
        K == CeilDiv(N, r.batchSize)
    IN  (r.batching /\ N >= 1) =>
          /\ Len(r.post) = K
          /\ \A i \in 1..K :
               /\ r.post[i].issued
               /\ r.post[i].body = Join(EncodedHits(Slice(r, i)), "\n")
          /\ (AllPostsDone(r) /\ Failures(r) = <<>>) =>
               r.all.state = "fulfilled"
          /\ (r.pc = "done" /\ Failures(r) = <<>>) =>
               r.calls[1] = [error |-> Null, count |-> K]

C4_Witness ==
  \E s \in SendIds :
    /\ sends[s].batching /\ sends[s].batchSize = 2
    /\ Len(sends[s].snapshot) = 3
    /\ sends[s].pc = "done" /\ Failures(sends[s]) = <<>>
    /\ sends[s].calls[1] = [error |-> Null, count |-> 2]

\* C5: a send that finds the Queue empty issues no POST and has invoked the
\* callback with (null, 0) by the time the send call returns, whatever the
\* batching policy and whatever earlier sends are in flight.
C5_EmptySend ==
  \A s \in SendIds :
    sends[s].snapshot = <<>> =>
      /\ sends[s].post = <<>>
      /\ sends[s].pc = "done"
      /\ Len(sends[s].calls) >= 1
      /\ sends[s].calls[1] = [error |-> Null, count |-> 0]

C5_Witness ==
  \E s1 \in SendIds : \E s2 \in SendIds :
    /\ s1 < s2
    /\ sends[s1].pc = "await" /\ InFlight(sends[s1])
    /\ sends[s2].snapshot = <<>>
    /\ sends[s2].calls = <<[error |-> Null, count |-> 0]>>

\* C6: a send invokes its completion callback exactly once: never twice, and
\* once it is over, not zero times, also when the callback throws.
C6_CallbackExactlyOnce ==
  \A s \in SendIds :
    /\ Len(sends[s].calls) <= 1
    /\ sends[s].pc = "done" => Len(sends[s].calls) = 1

\* C7: every Hit enqueued through the root Visitor carries the same
\* non-empty cid, the root Visitor's own.
C7_OneCid ==
  \A i \in 1..Len(enqueued) :
    Get(enqueued[i], "cid") = cid /\ ~Falsy(cid)

\* C8: the callback of a send has fired only if no POST of that send is
\* still in flight.
C8_CallbackAfterAllPosts ==
  \A s \in SendIds : Len(sends[s].calls) > 0 => ~InFlight(sends[s])

\* C9: when a POST of a send failed, the count passed to the callback is the
\* number of dispatch units the send planned.
C9_CountIsPlannedUnits ==
  \A s \in SendIds :
    (Len(sends[s].calls) > 0 /\ Failures(sends[s]) # <<>>) =>
      sends[s].calls[1].count = Len(sends[s].taskQueue)

\* C10: when POSTs of a send failed, every callback invocation of that send
\* carries the message of the failure that completed first, never null.
C10_FirstFailureReported ==
  \A s \in SendIds :
    Failures(sends[s]) # <<>> =>
      \A k \in 1..Len(sends[s].calls) :
        /\ sends[s].calls[k].error = Failures(sends[s])[1].err
        /\ sends[s].calls[k].error # Null

C10_Witness ==
  \E s \in SendIds :
    /\ Len(Failures(sends[s])) >= 2
    /\ Failures(sends[s])[1].unit > Failures(sends[s])[2].unit
    /\ Len(sends[s].calls) = 1
    /\ sends[s].calls[1].error = Failures(sends[s])[1].err

\* C11: no Hit that pageview enqueued has a key whose value is null or
\* undefined.
C11_NoNullValues ==
  \A i \in 1..Len(enqueued) : \A k \in 1..Len(enqueued[i]) :
    enqueued[i][k][2] \notin {Null, Undefined}

\* C13: a pageview called without a callback appends its Hit to the tail of
\* the Queue and starts no send (so issues no POST); a pageview called with
\* a callback starts, in the same step, a send with that callback which
\* drains the Queue followed by the new Hit, in order; a step that starts no
\* send removes nothing from the Queue.
C13_PageviewThenSend ==
  [][ /\ \A o \in CallbackPageviewInputs :
           PageviewWith({o}, MaxHits) =>
             LET hit == enqueued'[Len(enqueued')]
             IN  /\ enqueued' = Append(enqueued, hit)
                 /\ Get(hit, "dp") = o.path
                 /\ IF o.callback = Undefined
                    THEN sends' = sends /\ queue' = Append(queue, hit)
                    ELSE /\ Len(sends') = Len(sends) + 1
                         /\ SubSeq(sends', 1, Len(sends)) = sends
                         /\ sends'[Len(sends')].fn = o.callback
                         /\ sends'[Len(sends')].snapshot = Append(queue, hit)
                         /\ Flatten(sends'[Len(sends')].taskQueue)
                              = Append(queue, hit)
                         /\ queue' = <<>>
      /\ Len(sends') = Len(sends) =>
           Len(queue') >= Len(queue) /\ SubSeq(queue', 1, Len(queue)) = queue
    ]_vars

\* A send started by a pageview with a callback has drained two Hits queued
\* by earlier pageviews and its own, three in all, not all alike.
C13_Witness ==
  \E s \in SendIds :
    /\ sends[s].fn = "callback"
    /\ Len(sends[s].snapshot) = 3
    /\ sends[s].snapshot = enqueued
    /\ sends[s].snapshot[1] # sends[s].snapshot[3]
    /\ queue = <<>>

\* C16: every POST of a send goes to the batch path when batching is
\* enabled and to the single-hit path when it is disabled (one path per
\* send), whatever the number of Hits in its unit.
C16_PathByPolicy ==
  \A s \in SendIds : \A u \in 1..Len(sends[s].post) :
    sends[s].post[u].issued =>
      sends[s].path = (IF sends[s].batching THEN batchPath ELSE configPath)

C16_Witness ==
  \E s \in SendIds :
    /\ sends[s].batching
    /\ Len(sends[s].post) = 2
    /\ \A u \in 1..2 : sends[s].post[u].issued
    /\ Len(sends[s].taskQueue[2].items) = 1
    /\ sends[s].path = batchPath

\* C17: by the time a send waits, the POST of every planned dispatch unit
\* has been issued.
C17_AllUnitsIssued ==
  \A s \in SendIds : \A u \in 1..Len(sends[s].taskQueue) :
    sends[s].post[u].issued

\* C18: the Queue is a contiguous suffix of the sequence of Hits enqueued.
C18_QueueIsSuffix ==
  \E k \in 0..Len(enqueued) :
    queue = SubSeq(enqueued, k + 1, Len(enqueued))

C18_Witness ==
  /\ Len(enqueued) = 3 /\ Len(queue) = 2
  /\ queue[1] # queue[2]
  /\ \E s \in SendIds : sends[s].snapshot = <<enqueued[1]>>

RECURSIVE Snapshots(_)
Snapshots(ss) ==
  IF ss = <<>> THEN <<>> ELSE Head(ss).snapshot \o Snapshots(Tail(ss))

\* C19: the Hits enqueued are, in order, the Hits the sends drained followed
\* by the Hits still queued, so no Hit is drained twice or put back; every
\* unit of a send is one slice of what it drained, and its POST, if any,
\* carries that slice; a POST once completed is never issued again.
C19_NoRetransmission ==
  /\ Snapshots(sends) \o queue = enqueued
  /\ \A s \in SendIds :
       /\ Flatten(sends[s].taskQueue) = sends[s].snapshot
       /\ Len(sends[s].post) = Len(sends[s].taskQueue)
       /\ Len(sends[s].completions) <= Len(sends[s].post)
       /\ \A u \in 1..Len(sends[s].post) :
            sends[s].post[u].issued =>
              sends[s].post[u].body
                = Join(EncodedHits(sends[s].taskQueue[u].items), "\n")

C19_Witness ==
  \E s1 \in SendIds : \E s2 \in SendIds :
    /\ s1 < s2
    /\ Failures(sends[s1]) # <<>> /\ sends[s1].pc = "done"
    /\ Len(sends[s2].snapshot) >= 1
    /\ sends[s2].post[1].issued
    /\ queue = <<>>

CollaboratorThrew(r) ==
  \E u \in 1..Len(r.executor) : r.executor[u] \in {"codec threw", "post threw"}

\* The units of a send that had failed by the time every POST was issued,
\* and the message each failed with.
FailedInDispatch(r) ==
  {u \in 1..Len(r.executor) :
     \/ r.executor[u] \in {"getBody threw", "codec threw", "post threw"}
     \/ /\ r.executor[u] = "called back"
        /\ \E k \in 1..Len(r.completions) :
             r.completions[k].unit = u /\ r.completions[k].err # Undefined}

DispatchMessage(r, u) ==
  IF r.executor[u] = "getBody threw" THEN MapTypeError
  ELSE IF r.executor[u] = "codec threw" THEN CodecThrew
  ELSE IF r.executor[u] = "post threw" THEN PostThrew
  ELSE r.completions[CHOOSE k \in 1..Len(r.completions) :
                       r.completions[k].unit = u].err

\* C20 as stated: when a collaborator threw synchronously during a send,
\* the promise the send returned is rejected.
C20_ThrowRejectsSend ==
  \A s \in SendIds :
    (CollaboratorThrew(sends[s]) /\ sends[s].pc = "done") =>
      sends[s].promise = "rejected"

\* C20, amended: when a collaborator threw synchronously during a send, the
\* promise the send returned resolves, unless the callback throws; the
\* callback is invoked once, with the message of the lowest-indexed unit
\* that failed while the POSTs were issued (the throw, or an error a lower
\* unit's POST reported before request.post returned).
C20_ThrowReportedToCallback ==
  \A s \in SendIds :
    (CollaboratorThrew(sends[s]) /\ sends[s].pc = "done") =>
      LET failed == FailedInDispatch(sends[s])
          first  == CHOOSE u \in failed : \A v \in failed : u <= v
      IN  /\ Len(sends[s].calls) = 1
          /\ sends[s].calls[1].error = DispatchMessage(sends[s], first)
          /\ sends[s].promise
               = (IF sends[s].fn = "throws" THEN "rejected" ELSE "resolved")

\* One send met a throw of request.post for its only unit and reported it;
\* another had the error of unit 1 reported before request.post threw for
\* unit 2, and reported the error of unit 1.  Both promises resolved.
C20_Witness ==
  \E s \in SendIds : \E t \in SendIds :
    /\ sends[s].executor = <<"post threw">>
    /\ sends[s].calls = <<[error |-> PostThrew, count |-> 0]>>
    /\ sends[s].promise = "resolved"
    /\ sends[t].executor = <<"called back", "post threw">>
    /\ sends[t].calls = <<[error |-> "error-1", count |-> 1]>>
    /\ sends[t].promise = "resolved"

\* C15: the batching policy a send applied is the one the Visitor's own
\* construction options fixed (for the options it gave).
C15_OwnBatchingPolicy ==
  \A s \in SendIds :
    /\ options.enableBatching # <<>> =>
         sends[s].batching = options.enableBatching[1]
    /\ options.batchSize # <<>> =>
         sends[s].batchSize = options.batchSize[1]

\* The named field of pageview that is written to key k, if any.
NamedField(o, k) ==
  CASE k = "dp" -> o.path
    [] k = "dh" -> o.hostname
    [] k = "dt" -> o.title
    [] OTHER -> Undefined

WireKey(k) == IF Has(parametersMap, k) THEN Get(parametersMap, k) ELSE k

\* C12: the Hit a pageview enqueued holds, for every key its per-call params
\* give a non-null value, that value, unless the caller supplied the named
\* field that maps to the key.
C12_PerCallParamsKept ==
  [][ Len(enqueued') = Len(enqueued) + 1 =>
        \A o \in ParamPageviewInputs :
          enqueued'[Len(enqueued')] = PageviewHit(o, NewCid(options, uuids)) =>
            \A i \in 1..Len(o.params) :
              LET k == WireKey(o.params[i][1])
                  v == o.params[i][2]
              IN  (v \notin {Null, Undefined} /\ NamedField(o, k) = Undefined)
                    => Get(enqueued'[Len(enqueued')], k) = v ]_vars

\* C14: a step that changes the Context (reset) leaves it empty and changes
\* neither the Queue, the PersistentParams, the Identity, the options nor
\* the batching configuration.
C14_ResetOnlyContext ==
  [][ context' # context =>
        /\ context' = <<>>
        /\ UNCHANGED <<queue, persistentParams, tid, cid, uid, options,
                       config, sends, enqueued>> ]_vars

C14_Witness ==
  /\ context = <<>>
  /\ Len(queue) = 2
  /\ persistentParams # <<>>
  /\ uid = "u1"

\* C21: a pageview without a callback (a step that enqueues a Hit and starts
\* no send) changes neither the Visitor's Identity, Context and
\* PersistentParams, nor its options, nor the shared configuration.
C21_PageviewOnlyQueue ==
  [][ (Len(enqueued') = Len(enqueued) + 1 /\ sends' = sends) =>
        UNCHANGED <<config, options, tid, cid, uid, context,
                    persistentParams>> ]_vars

\* The request.post calls of every legacy send, as the positions idx of the
\* posted Hits in enqueued.
LegacyPostedIdx == UNION { { sends[s].posted[i].idx :
                               i \in 1..Len(sends[s].posted) } : s \in SendIds }

RECURSIVE LegacyPostCount(_)
LegacyPostCount(i) ==
  IF i = 0 THEN 0 ELSE Len(sends[i].posted) + LegacyPostCount(i - 1)

LegacySequential(rec) ==
  /\ Len(rec.posted) - rec.completed = (IF rec.pc = "running" THEN 1 ELSE 0)
  /\ Len(rec.calls) = (IF rec.pc = "running" THEN 0 ELSE 1)
  /\ \A i \in 1..Len(rec.posted) :
       /\ rec.posted[i].url = LegacyUrl(enqueued[rec.posted[i].idx])
       /\ i > 1 => rec.posted[i].idx > rec.posted[i - 1].idx

LegacyShiftedPosted ==
  /\ queue = SubSeq(enqueued, Shifted + 1, Len(enqueued))
  /\ LegacyPostedIdx = 1..Shifted
  /\ LegacyPostCount(Len(sends)) = Shifted
  /\ \A s \in SendIds : LegacySequential(sends[s])

\* C22: the legacy send transmits sequentially.  Every POST carries the Hit
\* that was at the head of the queue and removes exactly that Hit, so the
\* posted Hits are the shifted prefix of the enqueued ones, each posted once;
\* a send has one POST in flight while it runs and none once it is done; it
\* calls its callback once, when it is done; a send that ends without an
\* error ends on an empty queue, Hits enqueued meanwhile included; a send
\* whose POST fails issues no further POST, leaves the queue as it was and
\* reports that error; a send that is done never acts again.
C22_LegacySequentialSend ==
  [][ /\ LegacyShiftedPosted'
      /\ \A s \in 1..Len(sends') :
           LET ran       == s > Len(sends) \/ sends[s].pc = "running"
               oldPosted == IF s <= Len(sends) THEN sends[s].posted ELSE <<>>
           IN  /\ Len(sends'[s].posted) - Len(oldPosted) \in {0, 1}
               /\ ~ran => sends'[s] = sends[s]
               /\ (ran /\ sends'[s].pc = "done"
                       /\ sends'[s].calls[1].error = Undefined)
                    => queue' = <<>>
               /\ (ran /\ sends'[s].pc = "done"
                       /\ sends'[s].calls[1].error # Undefined)
                    => /\ queue' = queue
                       /\ sends'[s].posted = oldPosted
                       /\ sends'[s].calls = <<[error |-> "error"]>>
    ]_vars

\* A send that posted a Hit enqueued after it was invoked, then met a POST
\* error and left a Hit in the queue.
C22_Witness ==
  \E s \in SendIds :
    /\ sends[s].pc = "done"
    /\ sends[s].calls = <<[error |-> "error"]>>
    /\ \E i \in 1..Len(sends[s].posted) :
         sends[s].posted[i].idx > sends[s].started
    /\ Len(queue) > 0

====
